---- MODULE Spec2Model ----
(***************************************************************************)
(* Chart items of PySide6Plot (src/PySide6Plot/libs/plot_item.py): the     *)
(* factory get_plot_item, CandlestickPricesItem, CandlestickVolumeItem and *)
(* LinePlotItem, as a state machine over one item reference held by the    *)
(* caller, the painter handed to paint and the result of the last call.    *)
(*                                                                         *)
(* Units.  Horizontal coordinates are written in twentieths of an ordinal  *)
(* (XCoord), so that style.bar_width, style.shadow_width and               *)
(* style.shadow_width / 2 are whole numbers; vertical coordinates of price *)
(* and line items are the series' own numbers; a volume divided by 1e8 is  *)
(* an exact fraction <<numerator, denominator>> in lowest terms.           *)
(*                                                                         *)
(* The scroll bar of src/PySide6Plot/widgets/fluent_scroller.py,           *)
(* FluentScrollBar, is a second state machine (ScrollSpec) over one bar:   *)
(* its range, value, press state and handle geometry, and the signals the  *)
(* call or event at hand emitted.  Spec leaves the bar as constructed, and *)
(* ScrollSpec holds no chart item.                                         *)
(***************************************************************************)
EXTENDS Integers, Sequences, FiniteSets, TLC

VARIABLES
    item,      \* the caller's reference: the item a constructor returned, or NoItem
    built,     \* history: the item exactly as its constructor returned it
    orphan,    \* the object a raising constructor left behind (no reference to it)
    call,      \* the call the caller has just made: its operation and arguments
    ret,       \* what that call returned or raised
    painter,   \* the QPainter handed to that call, if it was a paint, as paint left it
    canvas,    \* the operations that paint issued on the painter
    failed,    \* history: an earlier query on the item raised
    series_impl,  \* what the series' get_local_range answers for a window with no ordinal
    sb,        \* the FluentScrollBar: its attributes and the geometry it reads
    prior,     \* history: the scroll bar as it was when the call at hand was entered
    scall,     \* the call or event the scroll bar handled last, NoCall between two
    emitted,   \* the signals that call emitted, in order, per signal
    slider     \* history: which of sliderPressed and sliderReleased was emitted last

itemVars == <<item, built, orphan, call, ret, painter, canvas, failed, series_impl>>

scrollVars == <<sb, prior, scall, emitted, slider>>

vars == <<item, built, orphan, call, ret, painter, canvas, failed, series_impl,
          sb, prior, scall, emitted, slider>>

----------------------------------------------------------------------------
\* Bounds of the model.

\* Longest series (number of ordinals) drawn as input.
MaxLen == 2

\* Most single-shot timers of a scroll bar that are scheduled and have not fired yet.
MaxShots == 3

----------------------------------------------------------------------------
\* Arithmetic helpers.

Max(a, b) == IF a >= b THEN a ELSE b

Min(a, b) == IF a <= b THEN a ELSE b

SetMax(S) == CHOOSE m \in S : \A v \in S : v <= m

SetMin(S) == CHOOSE m \in S : \A v \in S : m <= v

RECURSIVE Gcd(_, _)
Gcd(a, b) == IF b = 0 THEN a ELSE Gcd(b, a % b)

\* The exact quotient a / b (b > 0) as a fraction in lowest terms.
Frac(a, b) ==
    LET s == IF a < 0 THEN -1 ELSE 1
        g == Gcd(s * a, b)
    IN  <<a \div g, b \div g>>

\* An ordinal as a horizontal coordinate (twentieths of an ordinal).
XCoord(t) == 20 * t

----------------------------------------------------------------------------
\* Qt value types and the recording painter.

QRectF(x, y, w, h) == [x |-> x, y |-> y, w |-> w, h |-> h]

QPointF(x, y) == [x |-> x, y |-> y]

\* A painter transform: scaling and translation along each axis.
Identity == [m11 |-> 1, m22 |-> 1, dx |-> 0, dy |-> 0]

\* transform.map(point)
Map(T, pt) == QPointF(T.m11 * pt.x + T.dx, T.m22 * pt.y + T.dy)

\* pg.mkPen(color, width=width); the width is 1 when none is given.
mkPen(color, width) == [color |-> color, width |-> width]

\* pg.mkBrush(color)
mkBrush(color) == color

\* A QPainter as it starts: default pen, no brush, nothing drawn yet.
NewPainter(T) ==
    [transform |-> T, pen |-> mkPen("black", 1), brush |-> "NoBrush", cmds |-> <<>>]

\* QtGui.QPainter(self.picture): a new painter recording into an empty picture.
NewPicturePainter == NewPainter(Identity)

setBrush(p, brush) == [p EXCEPT !.brush = brush]

setPen(p, pen) == [p EXCEPT !.pen = pen]

\* p.drawRect(rect): the rectangle is recorded with the pen and brush in force.
drawRect(p, rect) ==
    [p EXCEPT !.cmds = Append(@, [op |-> "rect", rect |-> rect,
                                  pen |-> p.pen, brush |-> p.brush])]

\* p.drawPolyline(QPolygonF(points)): recorded with the pen in force.
drawPolyline(p, points) ==
    [p EXCEPT !.cmds = Append(@, [op |-> "polyline", points |-> points,
                                  pen |-> p.pen, brush |-> p.brush])]

\* p.drawEllipse(center, rx, ry): recorded with the transform in force.
drawEllipse(p, center, rx, ry) ==
    [p EXCEPT !.cmds = Append(@, [op |-> "ellipse", center |-> center, rx |-> rx, ry |-> ry,
                                  pen |-> p.pen, brush |-> p.brush,
                                  transform |-> p.transform])]

\* p.drawPicture(0, 0, picture): the picture is played back under the transform in
\* force; the painter's own pen, brush and transform are as before afterwards.
drawPicture(p, x, y, picture) ==
    [p EXCEPT !.cmds = Append(@, [op |-> "picture", x |-> x, y |-> y, picture |-> picture,
                                  transform |-> p.transform])]

\* p.resetTransform()
resetTransform(p) ==
    [p EXCEPT !.transform = Identity, !.cmds = Append(@, [op |-> "resetTransform"])]

\* p.setTransform(transform)
setTransform(p, T) ==
    [p EXCEPT !.transform = T, !.cmds = Append(@, [op |-> "setTransform", transform |-> T])]

----------------------------------------------------------------------------
\* Styles: the parameter bag read by the constructors and by paint.

DEFAULT_STYLE ==
    [bar_width |-> 6, shadow_width |-> 2,
     positive_color |-> "red", negative_color |-> "green",
     volume_color |-> "blue", line_color |-> "white", line_width |-> 1,
     marker_color |-> "yellow", marker_size |-> 6]

OTHER_STYLE ==
    [bar_width |-> 8, shadow_width |-> 4,
     positive_color |-> "green", negative_color |-> "red",
     volume_color |-> "gray", line_color |-> "black", line_width |-> 2,
     marker_color |-> "cyan", marker_size |-> 10]

Styles == {DEFAULT_STYLE, OTHER_STYLE}

----------------------------------------------------------------------------
\* The wrapped series (PySide6Plot/libs/data_handler.py).

NoItem == [cls |-> "None"]

NoCall == [op |-> "none"]

NoRet == [ok |-> TRUE, val |-> "None"]

Returned(v) == [ok |-> TRUE, val |-> v]

Raised(exc) == [ok |-> FALSE, exc |-> exc]

\* Values an OHLC field takes in the enumerated series.
PriceValues == {1, 2}

\* The OHLC series of the documented scenario, in tenths:
\* (1, 2, 2.5, 0.8), (2, 1, 2.2, 0.9), (1, 1, 1.5, 0.9) as (open, close, high, low).
ExamplePrices ==
    [cls |-> "PricesDataFrame",
     rows |-> << <<10, 20, 25, 8>>, <<20, 10, 22, 9>>, <<10, 10, 15, 9>> >>]

PriceRows == PriceValues \X PriceValues \X PriceValues \X PriceValues

SeqsUpTo(S, n) == UNION {[1..k -> S] : k \in 0..n}

\* Every PricesDataFrame drawn as input: rows of (open, close, high, low).
PricesFrames ==
    {[cls |-> "PricesDataFrame", rows |-> r] : r \in SeqsUpTo(PriceRows, MaxLen)}
        \cup {ExamplePrices}

\* Iterating a series: one tuple (ordinal, value...) per ordinal, in order.
Iterate(data) == [i \in 1..Len(data.rows) |-> <<i - 1>> \o data.rows[i]]

\* The closed window [x_start, x_end] clamped to the ordinals 0..N-1 (as 1-based positions).
Window(n, x_start, x_end) == {i \in 1..n : x_start <= i - 1 /\ i - 1 <= x_end}

\* The sentinel result for a window that holds no ordinal.
EmptyRange == <<0, 0>>

\* The two documented answers for a window that holds no ordinal: the sentinel, or
\* a zero-width range anchored at the nearest ordinal's value.
EmptyWindowPolicies == {"sentinel", "anchor"}

\* The position (from 1) of the ordinal nearest to the window, in a series of n >= 1.
Nearest(n, x_start, x_end) ==
    IF x_start > n - 1 THEN n ELSE IF x_start < 0 THEN 1 ELSE x_start + 1

\* The answer for an empty window over the values vals (one per ordinal).
EmptyWindowRange(vals, x_start, x_end) ==
    IF series_impl = "anchor" /\ Len(vals) >= 1
    THEN LET v == vals[Nearest(Len(vals), x_start, x_end)] IN <<v, v>>
    ELSE EmptyRange

\* PricesDataFrame.get_local_range: the least low and greatest high in the window.
PricesGetLocalRange(data, x_start, x_end) ==
    LET win == Window(Len(data.rows), x_start, x_end)
    IN  IF win = {}
        THEN EmptyWindowRange([i \in 1..Len(data.rows) |-> data.rows[i][2]], x_start, x_end)
        ELSE <<SetMin({data.rows[i][4] : i \in win}), SetMax({data.rows[i][3] : i \in win})>>

\* get_x_ticks: tick candidates (ordinal, label), one per ordinal here.
GetXTicks(n) == [i \in 1..n |-> <<i - 1, i - 1>>]

----------------------------------------------------------------------------
\* CandlestickPricesItem.

\* Variant of PricesDrawBody: the tie close = open takes the positive branch.
PricesDrawBody_TieRising(p, style, row) ==
    LET t == row[1]
        open_price == row[2]
        close_price == row[3]
        w == style.bar_width
    IN  IF close_price >= open_price
        THEN drawRect(setPen(setBrush(p, mkBrush(style.positive_color)),
                             mkPen(style.positive_color, 1)),
                      QRectF(XCoord(t) - w, open_price, w * 2, close_price - open_price))
        ELSE drawRect(setPen(setBrush(p, mkBrush(style.negative_color)),
                             mkPen(style.negative_color, 1)),
                      QRectF(XCoord(t) - w, close_price, w * 2, open_price - close_price))

\* Variant of PricesDrawBody: the branch is taken on high instead of close.
PricesDrawBody_ColorByHigh(p, style, row) ==
    LET t == row[1]
        open_price == row[2]
        close_price == row[3]
        high_price == row[4]
        w == style.bar_width
    IN  IF high_price > open_price
        THEN drawRect(setPen(setBrush(p, mkBrush(style.positive_color)),
                             mkPen(style.positive_color, 1)),
                      QRectF(XCoord(t) - w, open_price, w * 2, close_price - open_price))
        ELSE drawRect(setPen(setBrush(p, mkBrush(style.negative_color)),
                             mkPen(style.negative_color, 1)),
                      QRectF(XCoord(t) - w, close_price, w * 2, open_price - close_price))

\* Variant of PricesDrawBody: a falling bar keeps open as its origin, with the
\* signed height close - open.
PricesDrawBody_SignedHeight(p, style, row) ==
    LET t == row[1]
        open_price == row[2]
        close_price == row[3]
        w == style.bar_width
    IN  IF close_price > open_price
        THEN drawRect(setPen(setBrush(p, mkBrush(style.positive_color)),
                             mkPen(style.positive_color, 1)),
                      QRectF(XCoord(t) - w, open_price, w * 2, close_price - open_price))
        ELSE drawRect(setPen(setBrush(p, mkBrush(style.negative_color)),
                             mkPen(style.negative_color, 1)),
                      QRectF(XCoord(t) - w, open_price, w * 2, close_price - open_price))

\* One pass of the constructor's loop, lines 103-110: the body of one bar.
PricesDrawBody(p, style, row) ==
    LET t == row[1]
        open_price == row[2]
        close_price == row[3]
        w == style.bar_width
    IN  IF close_price > open_price
        THEN drawRect(setPen(setBrush(p, mkBrush(style.positive_color)),
                             mkPen(style.positive_color, 1)),
                      QRectF(XCoord(t) - w, open_price, w * 2, close_price - open_price))
        ELSE drawRect(setPen(setBrush(p, mkBrush(style.negative_color)),
                             mkPen(style.negative_color, 1)),
                      QRectF(XCoord(t) - w, close_price, w * 2, open_price - close_price))

\* Variant of PricesDrawShadow: the height is given as high, not high - low.
PricesDrawShadow_HeightIsHigh(p, style, row) ==
    LET t == row[1]
        high_price == row[4]
        low_price == row[5]
    IN  drawRect(p, QRectF(XCoord(t) - style.shadow_width \div 2, low_price,
                           style.shadow_width, high_price))

\* Line 111: the shadow of one bar, drawn with whatever pen and brush are in force.
PricesDrawShadow(p, style, row) ==
    LET t == row[1]
        high_price == row[4]
        low_price == row[5]
    IN  drawRect(p, QRectF(XCoord(t) - style.shadow_width \div 2, low_price,
                           style.shadow_width, high_price - low_price))

RECURSIVE PricesDrawLoop(_, _, _, _)
PricesDrawLoop(p, style, it, k) ==
    IF k > Len(it) THEN p
    ELSE PricesDrawLoop(PricesDrawShadow(PricesDrawBody(p, style, it[k]), style, it[k]),
                        style, it, k + 1)

\* CandlestickPricesItem.__init__
CandlestickPricesItem(data, style) ==
    [cls |-> "CandlestickPricesItem", data |-> data, style |-> style,
     picture |-> PricesDrawLoop(NewPicturePainter, style, Iterate(data), 1).cmds,
     marker_drawer |-> "n/a"]

\* The hull of a recorded picture's rectangles (QPicture.boundingRect, taken over
\* the recorded geometry); an empty picture has the null rectangle.
RectsBoundingRect(cmds) ==
    IF cmds = <<>> THEN QRectF(0, 0, 0, 0)
    ELSE LET idx == 1..Len(cmds)
             left == SetMin({cmds[i].rect.x : i \in idx})
             right == SetMax({cmds[i].rect.x + cmds[i].rect.w : i \in idx})
             top == SetMin({Min(cmds[i].rect.y, cmds[i].rect.y + cmds[i].rect.h) : i \in idx})
             bottom == SetMax({Max(cmds[i].rect.y, cmds[i].rect.y + cmds[i].rect.h) : i \in idx})
         IN  QRectF(left, top, right - left, bottom - top)

\* CandlestickPricesItem.boundingRect
PricesBoundingRect(it) == Returned(RectsBoundingRect(it.picture))

\* Variant of PricesGetLocalPlotRange: the window ends are passed in the wrong order.
PricesGetLocalPlotRange_SwapsEnds(it, x_start, x_end) ==
    Returned(PricesGetLocalRange(it.data, x_end, x_start))

\* CandlestickPricesItem.get_local_plot_range
PricesGetLocalPlotRange(it, x_start, x_end) ==
    Returned(PricesGetLocalRange(it.data, x_start, x_end))

\* CandlestickPricesItem.get_x_ticks
PricesGetXTicks(it) == Returned(GetXTicks(Len(it.data.rows)))

\* A call made without the key argument.
Omitted == "<omitted>"

available_keys == <<"open", "close", "high", "low">>

\* The key a call of CandlestickPricesItem.get_feature_value works with (key="close").
PricesKeyArg(key) == IF key = Omitted THEN "close" ELSE key

\* Variant of PricesFeatureIndex: the ordinal at position 0 is not skipped.
PricesFeatureIndex_NoShift(key) ==
    (CHOOSE i \in 1..Len(available_keys) : available_keys[i] = key) - 1

\* available_keys.index(key) + 1: the position of the field in an iteration tuple,
\* counted from 0 as the source does.
PricesFeatureIndex(key) ==
    (CHOOSE i \in 1..Len(available_keys) : available_keys[i] = key) - 1 + 1

\* Variant of PricesGetFeatureValue: an unknown key falls back to close.
PricesGetFeatureValue_FallsBack(it, key) ==
    LET k == IF \A i \in 1..Len(available_keys) : available_keys[i] # PricesKeyArg(key)
             THEN "close" ELSE PricesKeyArg(key)
        tuples == Iterate(it.data)
    IN  Returned([i \in 1..Len(tuples) |-> tuples[i][PricesFeatureIndex(k) + 1]])

\* CandlestickPricesItem.get_feature_value
PricesGetFeatureValue(it, key) ==
    LET k == PricesKeyArg(key)
    IN  IF \A i \in 1..Len(available_keys) : available_keys[i] # k
        THEN Raised("ValueError")
        ELSE LET index == PricesFeatureIndex(k)
                 tuples == Iterate(it.data)
             IN  Returned([i \in 1..Len(tuples) |-> tuples[i][index + 1]])

----------------------------------------------------------------------------
\* CandlestickVolumeItem.

\* The display scale the volume item divides by (the literal 1e8).
VolumeScale == 100000000

\* Values a volume takes in the enumerated series.
VolumeValues == {0, 30000000, 50000000, 100000000, 200000000}

\* Every VolumeDataFrame drawn as input: rows of (volume).
VolumeFrames ==
    {[cls |-> "VolumeDataFrame", rows |-> r] :
        r \in SeqsUpTo({<<v>> : v \in VolumeValues}, MaxLen)}
        \cup {[cls |-> "VolumeDataFrame",
               rows |-> << <<50000000>>, <<200000000>>, <<100000000>> >>]}

\* VolumeDataFrame.get_local_range: the least and greatest volume in the window.
VolumeGetLocalRange(data, x_start, x_end) ==
    LET win == Window(Len(data.rows), x_start, x_end)
    IN  IF win = {}
        THEN EmptyWindowRange([i \in 1..Len(data.rows) |-> data.rows[i][1]], x_start, x_end)
        ELSE <<SetMin({data.rows[i][1] : i \in win}), SetMax({data.rows[i][1] : i \in win})>>

\* Variant of VolumeDrawBar: the bar's height is the raw volume.
VolumeDrawBar_Unscaled(p, style, row) ==
    LET t == row[1]
        volume == row[2]
        w == style.bar_width
    IN  drawRect(p, QRectF(XCoord(t) - w, 0, w * 2, Frac(volume, 1)))

\* Line 194: one bar, from the baseline 0 to volume / 1e8.
VolumeDrawBar(p, style, row) ==
    LET t == row[1]
        volume == row[2]
        w == style.bar_width
    IN  drawRect(p, QRectF(XCoord(t) - w, 0, w * 2, Frac(volume, VolumeScale)))

RECURSIVE VolumeDrawLoop(_, _, _, _)
VolumeDrawLoop(p, style, it, k) ==
    IF k > Len(it) THEN p
    ELSE VolumeDrawLoop(VolumeDrawBar(p, style, it[k]), style, it, k + 1)

\* CandlestickVolumeItem.__init__
CandlestickVolumeItem(data, style) ==
    [cls |-> "CandlestickVolumeItem", data |-> data, style |-> style,
     picture |-> VolumeDrawLoop(
                     setPen(setBrush(NewPicturePainter, mkBrush(style.volume_color)),
                            mkPen(style.volume_color, 1)),
                     style, Iterate(data), 1).cmds,
     marker_drawer |-> "n/a"]

\* a/b <= c/d for fractions with positive denominators.
FracLeq(f, g) == f[1] * g[2] <= g[1] * f[2]

\* The hull of a volume picture: every bar starts at 0 and its height is a fraction.
VolumeBoundingRect(it) ==
    LET cmds == it.picture
    IN  IF cmds = <<>> THEN Returned(QRectF(0, 0, 0, 0))
        ELSE LET idx == 1..Len(cmds)
                 left == SetMin({cmds[i].rect.x : i \in idx})
                 right == SetMax({cmds[i].rect.x + cmds[i].rect.w : i \in idx})
                 hs == {cmds[i].rect.h : i \in idx} \cup {<<0, 1>>}
                 top == CHOOSE f \in hs : \A g \in hs : FracLeq(f, g)
                 bottom == CHOOSE f \in hs : \A g \in hs : FracLeq(g, f)
             IN  Returned([x |-> left, w |-> right - left, top |-> top, bottom |-> bottom])

\* Variant of VolumeGetLocalPlotRange: the series' minimum is handed on.
VolumeGetLocalPlotRange_KeepsMin(it, x_start, x_end) ==
    LET r == VolumeGetLocalRange(it.data, x_start, x_end)
        min_v == r[1]
        max_v == r[2]
    IN  Returned(<<min_v, Frac(max_v, VolumeScale)>>)

\* Variant of VolumeGetLocalPlotRange: a window with no ordinal has no maximum to divide.
VolumeGetLocalPlotRange_FailsOnEmpty(it, x_start, x_end) ==
    LET r == VolumeGetLocalRange(it.data, x_start, x_end)
        max_v == r[2]
    IN  IF Window(Len(it.data.rows), x_start, x_end) = {} THEN Raised("TypeError")
        ELSE Returned(<<0, Frac(max_v, VolumeScale)>>)

\* CandlestickVolumeItem.get_local_plot_range
VolumeGetLocalPlotRange(it, x_start, x_end) ==
    LET r == VolumeGetLocalRange(it.data, x_start, x_end)
        min_v == r[1]
        max_v == r[2]
    IN  Returned(<<0, Frac(max_v, VolumeScale)>>)

\* CandlestickVolumeItem.get_x_ticks
VolumeGetXTicks(it) == Returned(GetXTicks(Len(it.data.rows)))

\* Variant of VolumeGetFeatureValue: the raw volumes, not divided by 1e8.
VolumeGetFeatureValue_Unscaled(it, key) ==
    LET tuples == Iterate(it.data)
    IN  Returned([i \in 1..Len(tuples) |-> Frac(tuples[i][2], 1)])

\* CandlestickVolumeItem.get_feature_value: the key is not read.
VolumeGetFeatureValue(it, key) ==
    LET tuples == Iterate(it.data)
    IN  Returned([i \in 1..Len(tuples) |-> Frac(tuples[i][2], VolumeScale)])

----------------------------------------------------------------------------
\* LinePlotItem.

\* The columns a line series may hold, and the keys a caller may request.
LineColumns == {"a", "b"}

\* A column of n values: rising with the ordinal, or flat.
ColumnValues(n) == {[i \in 1..n |-> i], [i \in 1..n |-> 2]}

\* The lists of requested column keys drawn as input ("z" is in no series).
KeyLists ==
    {<<>>, <<"a">>, <<"b">>, <<"a", "b">>, <<"z">>, <<"a", "z">>, <<"z", "a">>,
     <<"a", "z", "b">>}

\* Every ChildDataFrame drawn as input: n ordinals, named columns, requested keys.
LineFramesOfLen(n) ==
    {[cls |-> "ChildDataFrame", n |-> n, columns |-> c, data_keys |-> ks] :
        c \in UNION {[S -> ColumnValues(n)] : S \in SUBSET LineColumns},
        ks \in KeyLists}

LineFrames == UNION {LineFramesOfLen(n) : n \in 0..MaxLen}

\* The marker argument of the constructor ("None" is Python's None).
MarkerKinds == {"None", "circle", "o", "square"}

\* MARKER_DRAWER.get(marker, None)
MARKER_DRAWER(marker) ==
    IF marker \in {"circle", "o"} THEN "draw_circle_marker" ELSE "None"

\* data.data_frame.index.to_numpy(): the ordinals, as horizontal coordinates.
LineX(data) == [i \in 1..data.n |-> XCoord(i - 1)]

\* The constructor's loop, lines 268-272, from the k-th requested key on: the
\* painter, and whether a key absent from the columns stopped the loop.
RECURSIVE LineDrawLoop(_, _, _)
LineDrawLoop(p, data, k) ==
    IF k > Len(data.data_keys) THEN [raised |-> FALSE, p |-> p]
    ELSE LET data_key == data.data_keys[k]
         IN  IF data_key \notin DOMAIN data.columns
             THEN [raised |-> TRUE, p |-> p]
             ELSE LET x == LineX(data)
                      y == data.columns[data_key]
                  IN  LineDrawLoop(
                          drawPolyline(p, [i \in 1..Len(x) |-> QPointF(x[i], y[i])]),
                          data, k + 1)

\* Variant of LinePlotItem: an absent key is skipped, as paint skips it.
LinePlotItem_SkipsAbsentKey(data, style, marker) ==
    [raised |-> FALSE,
     self |-> [cls |-> "LinePlotItem", data |-> data, style |-> style,
               picture |-> LineDrawLoop(
                               setPen(NewPicturePainter,
                                      mkPen(style.line_color, style.line_width)),
                               data, 1).p.cmds,
               marker_drawer |-> MARKER_DRAWER(marker)]]

\* LinePlotItem.__init__: the object as the constructor leaves it, and whether it raised.
LinePlotItem(data, style, marker) ==
    LET r == LineDrawLoop(
                 setPen(NewPicturePainter, mkPen(style.line_color, style.line_width)), data, 1)
    IN  [raised |-> r.raised,
         self |-> [cls |-> "LinePlotItem", data |-> data, style |-> style,
                   picture |-> r.p.cmds, marker_drawer |-> MARKER_DRAWER(marker)]]

\* draw_circle_marker(p, canvas_pt, marker_size)
draw_circle_marker(p, canvas_pt, marker_size) == drawEllipse(p, canvas_pt, marker_size, marker_size)

\* Lines 290-294: the markers of one column, from the i-th point on.
RECURSIVE LineMarkColumn(_, _, _, _, _, _)
LineMarkColumn(p, transform, x, y, marker_size, i) ==
    IF i > Len(x) THEN p
    ELSE LET data_pt == QPointF(x[i], y[i])
             canvas_pt == Map(transform, data_pt)
         IN  LineMarkColumn(draw_circle_marker(p, canvas_pt, marker_size),
                            transform, x, y, marker_size, i + 1)

\* Lines 286-294: the markers of every requested column, from the k-th key on.
RECURSIVE LineMarkLoop(_, _, _, _, _)
LineMarkLoop(p, transform, it, marker_size, k) ==
    IF k > Len(it.data.data_keys) THEN p
    ELSE LET data_key == it.data.data_keys[k]
         IN  IF data_key \notin DOMAIN it.data.columns
             THEN LineMarkLoop(p, transform, it, marker_size, k + 1)
             ELSE LineMarkLoop(
                      LineMarkColumn(p, transform, LineX(it.data), it.data.columns[data_key],
                                     marker_size, 1),
                      transform, it, marker_size, k + 1)

\* Variant of LinePaint: the transform saved at entry is not set again.
LinePaint_NoRestore(it, p) ==
    LET p1 == drawPicture(p, 0, 0, it.picture)
    IN  IF it.marker_drawer # "None"
        THEN LET transform == p1.transform
                 p2 == setBrush(setPen(p1, mkPen(it.style.marker_color, it.style.line_width)),
                                mkBrush(it.style.marker_color))
                 marker_size == it.style.marker_size \div 2
                 p3 == resetTransform(p2)
             IN  LineMarkLoop(p3, transform, it, marker_size, 1)
        ELSE p1

\* Variant of LinePaint: the transform is read after the reset, so the points are
\* mapped by the identity.
LinePaint_MapsAfterReset(it, p) ==
    LET p1 == drawPicture(p, 0, 0, it.picture)
    IN  IF it.marker_drawer # "None"
        THEN LET p2 == setBrush(setPen(p1, mkPen(it.style.marker_color, it.style.line_width)),
                                mkBrush(it.style.marker_color))
                 marker_size == it.style.marker_size \div 2
                 p3 == resetTransform(p2)
                 transform == p3.transform
                 p4 == LineMarkLoop(p3, transform, it, marker_size, 1)
             IN  setTransform(p4, p1.transform)
        ELSE p1

\* LinePlotItem.paint: the painter as paint leaves it.
LinePaint(it, p) ==
    LET p1 == drawPicture(p, 0, 0, it.picture)
    IN  IF it.marker_drawer # "None"
        THEN LET transform == p1.transform
                 p2 == setBrush(setPen(p1, mkPen(it.style.marker_color, it.style.line_width)),
                                mkBrush(it.style.marker_color))
                 marker_size == it.style.marker_size \div 2
                 p3 == resetTransform(p2)
                 p4 == LineMarkLoop(p3, transform, it, marker_size, 1)
             IN  setTransform(p4, transform)
        ELSE p1

\* The hull of the polylines' points; an empty picture has the null rectangle.
LineBoundingRect(it) ==
    LET pts == UNION {{it.picture[j].points[i] : i \in 1..Len(it.picture[j].points)} :
                         j \in 1..Len(it.picture)}
    IN  IF pts = {} THEN Returned(QRectF(0, 0, 0, 0))
        ELSE LET left == SetMin({q.x : q \in pts})
                 top == SetMin({q.y : q \in pts})
             IN  Returned(QRectF(left, top, SetMax({q.x : q \in pts}) - left,
                                 SetMax({q.y : q \in pts}) - top))

\* ChildDataFrame.get_local_range: least and greatest value of the requested
\* columns in the window.
LineGetLocalRange(data, x_start, x_end) ==
    LET win == Window(data.n, x_start, x_end)
        vals == {data.columns[data.data_keys[k]][i] : k \in 1..Len(data.data_keys), i \in win}
    IN  IF vals = {}
        THEN IF Len(data.data_keys) >= 1
             THEN EmptyWindowRange(data.columns[data.data_keys[1]], x_start, x_end)
             ELSE EmptyRange
        ELSE <<SetMin(vals), SetMax(vals)>>

\* LinePlotItem.get_local_plot_range
LineGetLocalPlotRange(it, x_start, x_end) ==
    Returned(LineGetLocalRange(it.data, x_start, x_end))

\* LinePlotItem.get_x_ticks
LineGetXTicks(it) == Returned(GetXTicks(it.data.n))

\* ChildDataFrame.get_feature_value: the named column, or a failure for a name
\* that is no column (None included).
ChildGetFeatureValue(data, key) ==
    IF key \in DOMAIN data.columns THEN Returned(data.columns[key])
    ELSE Raised("UnknownFeatureKey")

\* LinePlotItem.get_feature_value (key=None)
LineGetFeatureValue(it, key) ==
    ChildGetFeatureValue(it.data, IF key = Omitted THEN "None" ELSE key)

----------------------------------------------------------------------------
\* The factory and the two candlestick paints.

\* Variant of get_plot_item: any other series becomes a LinePlotItem.
get_plot_item_LineFallback(data_frame, style) ==
    IF data_frame.cls = "PricesDataFrame"
    THEN Returned(CandlestickPricesItem(data_frame, style))
    ELSE IF data_frame.cls = "VolumeDataFrame"
         THEN Returned(CandlestickVolumeItem(data_frame, style))
         ELSE Returned(LinePlotItem(data_frame, style, "None").self)

\* get_plot_item: the item built, or the TypeError of the last branch.
get_plot_item(data_frame, style) ==
    IF data_frame.cls = "PricesDataFrame"
    THEN Returned(CandlestickPricesItem(data_frame, style))
    ELSE IF data_frame.cls = "VolumeDataFrame"
         THEN Returned(CandlestickVolumeItem(data_frame, style))
         ELSE Raised("TypeError")

\* CandlestickPricesItem.paint: the item and the painter as paint leaves them.
PricesPaint(it, p) == [self |-> it, p |-> drawPicture(p, 0, 0, it.picture)]

\* CandlestickVolumeItem.paint
VolumePaint(it, p) == [self |-> it, p |-> drawPicture(p, 0, 0, it.picture)]

\* Variant of LineItemPaint: after drawing the markers the cached picture is dropped.
LineItemPaint_DropsPicture(it, p) ==
    [self |-> IF it.marker_drawer # "None" THEN [it EXCEPT !.picture = <<>>] ELSE it,
     p |-> LinePaint(it, p)]

\* LinePlotItem.paint, with the item as paint leaves it.
LineItemPaint(it, p) == [self |-> it, p |-> LinePaint(it, p)]

----------------------------------------------------------------------------
\* FluentScrollBar.  Lengths and positions are taken along the bar's orientation;
\* every operation gives the set of states the widget may be left in, one per
\* outcome of its floating-point products.

\* self._padding
padding == 14

\* No signal emitted: the emissions of valueChanged and rangeChanged with their
\* arguments in order, and the number of emissions of the three slider signals.
\* With them, what else a handler did outside the bar: its calls of groove.fadeIn
\* and groove.fadeOut, and the exception it raised, if any.
NoSignals ==
    [valueChanged |-> <<>>, rangeChanged |-> <<>>,
     sliderPressed |-> 0, sliderReleased |-> 0, sliderMoved |-> 0,
     fadeIn |-> 0, fadeOut |-> 0, raised |-> "None"]

\* The bar as __init__ leaves it: a child widget grown to its minimum length 50,
\* with a handle of the default child length 30 at the origin.  held is Qt's side of
\* a press: a mouse button pressed on the bar is still down, so the bar will get
\* the moves and the release.  __init__ sets _isEnter, which nothing reads; the
\* attribute isEnter that expand and collapse read does not exist yet (hasIsEnter).
\* grooveAni is the animation the groove started last, singleShots the callbacks
\* scheduled with singleShot and not fired yet, in the order scheduled, and
\* lastHover (history) the last of enterEvent and leaveEvent.  The bar is enabled.
NewScrollBar ==
    [minimum |-> 0, maximum |-> 0, value |-> 0, pageStep |-> 50,
     isPressed |-> FALSE, pressedPos |-> 0, held |-> FALSE,
     enabled |-> TRUE, hasIsEnter |-> FALSE, isEnter |-> FALSE, isExpanded |-> FALSE,
     grooveAni |-> "none", singleShots |-> <<>>, lastHover |-> "none",
     length |-> 50, parent |-> 50, handleLen |-> 30, handlePos |-> 0]

\* int(n / d) for d >= 1: the quotient truncated toward zero.
TruncDiv(n, d) == IF n >= 0 THEN n \div d ELSE -((-n) \div d)

PowersOfTwo == {1, 2, 4, 8, 16, 32, 64, 128, 256, 512, 1024}

\* int(a / b * c) for b >= 1.  The quotient a / b is rounded to a double before it is
\* multiplied; when a * c / b is an integer and a / b is no binary fraction, the
\* product may land just under that integer, and int() then gives the integer next
\* to it toward zero.  Both outcomes are kept.
IntOfScaled(a, b, c) ==
    LET n == a * c
        q == TruncDiv(n, b)
        den == b \div Gcd(IF a < 0 THEN -a ELSE a, b)
    IN  IF n % b = 0 /\ q # 0 /\ den \notin PowersOfTwo
        THEN {q, IF q > 0 THEN q - 1 ELSE q + 1}
        ELSE {q}

\* _grooveLength
grooveLength(bar) == bar.length - 2 * padding

\* _slideLength
slideLength(bar) == grooveLength(bar) - bar.handleLen

\* _isSlideResion
isSlideResion(bar, pos) == padding <= pos /\ pos <= bar.length - padding

\* _adjustHandleSize
adjustHandleSize(w) ==
    LET total == w.sb.maximum - w.sb.minimum + w.sb.parent
        s == TruncDiv(grooveLength(w.sb) * w.sb.parent, Max(total, 1))
    IN  {[w EXCEPT !.sb.handleLen = Max(30, s)]}

\* _adjustHandlePos
adjustHandlePos(w) ==
    LET total == Max(w.sb.maximum - w.sb.minimum, 1)
    IN  {[w EXCEPT !.sb.handlePos = padding + delta] :
            delta \in IntOfScaled(w.sb.value, total, slideLength(w.sb))}

\* self._adjustHandleSize() followed by self._adjustHandlePos()
adjustHandle(w) == UNION {adjustHandlePos(x) : x \in adjustHandleSize(w)}

\* The setter of the property val
valSetter(w, value) ==
    IF value = w.sb.value THEN {w}
    ELSE LET v == Max(w.sb.minimum, Min(value, w.sb.maximum))
         IN  adjustHandlePos([w EXCEPT !.sb.value = v,
                                        !.out.valueChanged = Append(@, v)])

\* setValue
setValue(w, value) ==
    UNION {adjustHandle(x) : x \in valSetter(w, value)}

\* setMinimum
setMinimum(w, min) ==
    IF min = w.sb.minimum THEN {w}
    ELSE {[w EXCEPT !.sb.minimum = min,
                    !.out.rangeChanged = Append(@, <<min, w.sb.maximum>>)]}

\* setMaximum
setMaximum(w, max) ==
    IF max = w.sb.maximum THEN {w}
    ELSE {[w EXCEPT !.sb.maximum = max,
                    !.out.rangeChanged = Append(@, <<w.sb.minimum, max>>)]}

\* setRange
setRange(w, min, max) ==
    IF min > max \/ (min = w.sb.minimum /\ max = w.sb.maximum) THEN {w}
    ELSE LET ranged == UNION {setMaximum(x, max) : x \in setMinimum(w, min)}
             adjusted == UNION {adjustHandle(x) : x \in ranged}
         IN  {[x EXCEPT !.out.rangeChanged = Append(@, <<min, max>>)] : x \in adjusted}

\* _onPageUp
onPageUp(w) == setValue(w, w.sb.value - w.sb.pageStep)

\* _onPageDown
onPageDown(w) == setValue(w, w.sb.value + w.sb.pageStep)

\* mousePressEvent at pos; overHandle says whether the point lies, across the bar,
\* within the handle's thickness.
mousePressEvent(w, pos, overHandle) ==
    LET w1 == [w EXCEPT !.sb.isPressed = TRUE, !.sb.pressedPos = pos, !.sb.held = TRUE]
        bottom == w1.sb.handlePos + w1.sb.handleLen - 1
        childIsHandle == overHandle /\ w1.sb.handlePos <= pos /\ pos <= bottom
    IN  IF childIsHandle \/ ~isSlideResion(w1.sb, pos) THEN {w1}
        ELSE LET value == IF pos > bottom THEN pos - w1.sb.handleLen - padding
                          ELSE pos - padding
                 set == UNION {setValue(w1, v) :
                                  v \in IntOfScaled(value, Max(slideLength(w1.sb), 1),
                                                    w1.sb.maximum)}
             IN  {[x EXCEPT !.out.sliderPressed = @ + 1] : x \in set}

\* mouseReleaseEvent
mouseReleaseEvent(w) ==
    {[w EXCEPT !.sb.isPressed = FALSE, !.sb.held = FALSE, !.out.sliderReleased = @ + 1]}

\* mouseMoveEvent at pos
mouseMoveEvent(w, pos) ==
    LET set == UNION {setValue(w, w.sb.value + dv) :
                         dv \in IntOfScaled(pos - w.sb.pressedPos,
                                            Max(slideLength(w.sb), 1),
                                            w.sb.maximum - w.sb.minimum)}
    IN  {[x EXCEPT !.sb.pressedPos = pos, !.out.sliderMoved = @ + 1] : x \in set}

\* isSliderDown
isSliderDown(bar) == bar.isPressed

\* setSliderDown
setSliderDown(w, isDown) ==
    LET w1 == [w EXCEPT !.sb.isPressed = TRUE]
    IN  IF isDown THEN {[w1 EXCEPT !.out.sliderPressed = @ + 1]}
        ELSE {[w1 EXCEPT !.out.sliderReleased = @ + 1]}

\* Variant of expand: the bar expands whether or not the pointer is inside.
expand_IgnoresPointer(w) ==
    IF w.sb.isExpanded THEN {w}
    ELSE {[w EXCEPT !.sb.isExpanded = TRUE, !.sb.grooveAni = "fadeIn",
                    !.out.fadeIn = @ + 1]}

\* expand: isEnter is read only when _isExpanded is false.
expand(w) ==
    IF w.sb.isExpanded THEN {w}
    ELSE IF ~w.sb.hasIsEnter THEN {[w EXCEPT !.out.raised = "AttributeError"]}
    ELSE IF ~w.sb.isEnter THEN {w}
    ELSE {[w EXCEPT !.sb.isExpanded = TRUE, !.sb.grooveAni = "fadeIn",
                    !.out.fadeIn = @ + 1]}

\* collapse: isEnter is read only when _isExpanded is true.
collapse(w) ==
    IF ~w.sb.isExpanded THEN {w}
    ELSE IF ~w.sb.hasIsEnter THEN {[w EXCEPT !.out.raised = "AttributeError"]}
    ELSE IF w.sb.isEnter THEN {w}
    ELSE {[w EXCEPT !.sb.isExpanded = FALSE, !.sb.grooveAni = "fadeOut",
                    !.out.fadeOut = @ + 1]}

\* enterEvent: self.timer was never started, so stopping it cancels nothing, and
\* singleShot (a static method) schedules one more callback each time.
enterEvent(w) ==
    IF w.sb.enabled
    THEN {[w EXCEPT !.sb.hasIsEnter = TRUE, !.sb.isEnter = TRUE,
                    !.sb.singleShots = Append(@, "expand")]}
    ELSE {w}

\* leaveEvent
leaveEvent(w) ==
    IF w.sb.enabled
    THEN {[w EXCEPT !.sb.hasIsEnter = TRUE, !.sb.isEnter = FALSE,
                    !.sb.singleShots = Append(@, "collapse")]}
    ELSE {w}

\* The i-th scheduled single shot fires: it leaves the list and its callback runs.
singleShotFires(w, i) ==
    LET shots == w.sb.singleShots
        w1 == [w EXCEPT !.sb.singleShots =
                            SubSeq(shots, 1, i - 1) \o SubSeq(shots, i + 1, Len(shots))]
    IN  IF shots[i] = "expand" THEN expand(w1) ELSE collapse(w1)

\* resizeEvent, the bar having taken the length and its parent the length given
resizeEvent(w, length, parent) ==
    adjustHandle([w EXCEPT !.sb.length = length, !.sb.parent = parent])

----------------------------------------------------------------------------
\* The state machine.

\* The transforms a painter may carry when paint is entered.
Transforms == {Identity, [m11 |-> 2, m22 |-> -3, dx |-> 5, dy |-> 7]}

\* The key arguments tried on get_feature_value ("None" is an explicit None).
FeatureKeyArgs ==
    {Omitted, "open", "close", "high", "low", "Close", "volume", "None", "a"}

\* The number of ordinals of an item's series.
ItemLen(it) == IF it.cls = "LinePlotItem" THEN it.data.n ELSE Len(it.data.rows)

\* Window ends tried on an item: from one before the first ordinal to one past the last.
WindowEdges(it) == -1..ItemLen(it)

NoPainter == [transform |-> Identity, pen |-> mkPen("black", 1), brush |-> "NoBrush"]

\* The caller holds an item and is between two calls.
Idle == item # NoItem /\ call = NoCall

Init ==
    /\ item = NoItem
    /\ built = NoItem
    /\ orphan = NoItem
    /\ call = NoCall
    /\ ret = NoRet
    /\ painter = NoPainter
    /\ canvas = <<>>
    /\ failed = FALSE
    /\ series_impl \in EmptyWindowPolicies
    /\ sb = NewScrollBar
    /\ prior = NewScrollBar
    /\ scall = NoCall
    /\ emitted = NoSignals
    /\ slider = "none"

\* item = get_plot_item(data_frame, style)
Factory ==
    /\ UNCHANGED <<series_impl, sb, prior, scall, emitted, slider>>
    /\ item = NoItem
    /\ call = NoCall
    /\ \E data_frame \in PricesFrames \cup VolumeFrames \cup LineFrames, style \in Styles :
          LET r == get_plot_item(data_frame, style)
          IN  /\ item' = IF r.ok THEN r.val ELSE NoItem
              /\ built' = item'
              /\ ret' = IF r.ok THEN Returned(r.val.cls) ELSE r
              /\ call' = [op |-> "get_plot_item", cls |-> data_frame.cls]
    /\ UNCHANGED <<orphan, painter, canvas, failed>>

\* item = CandlestickPricesItem(data, style)
NewPricesItem ==
    /\ UNCHANGED <<series_impl, sb, prior, scall, emitted, slider>>
    /\ item = NoItem
    /\ call = NoCall
    /\ \E data \in PricesFrames, style \in Styles :
          /\ item' = CandlestickPricesItem(data, style)
          /\ built' = item'
    /\ ret' = Returned("CandlestickPricesItem")
    /\ call' = [op |-> "CandlestickPricesItem"]
    /\ UNCHANGED <<orphan, painter, canvas, failed>>

\* item = CandlestickVolumeItem(data, style)
NewVolumeItem ==
    /\ UNCHANGED <<series_impl, sb, prior, scall, emitted, slider>>
    /\ item = NoItem
    /\ call = NoCall
    /\ \E data \in VolumeFrames, style \in Styles :
          /\ item' = CandlestickVolumeItem(data, style)
          /\ built' = item'
    /\ ret' = Returned("CandlestickVolumeItem")
    /\ call' = [op |-> "CandlestickVolumeItem"]
    /\ UNCHANGED <<orphan, painter, canvas, failed>>

\* item = LinePlotItem(data, style, marker): a raising constructor binds nothing.
NewLineItem ==
    /\ UNCHANGED <<series_impl, sb, prior, scall, emitted, slider>>
    /\ item = NoItem
    /\ call = NoCall
    /\ \E data \in LineFrames, style \in Styles, marker \in MarkerKinds :
          LET r == LinePlotItem(data, style, marker)
          IN  /\ item' = IF r.raised THEN NoItem ELSE r.self
              /\ built' = item'
              /\ orphan' = IF r.raised THEN r.self ELSE NoItem
              /\ ret' = IF r.raised THEN Raised("ValueError") ELSE Returned("LinePlotItem")
              /\ call' = [op |-> "LinePlotItem", marker |-> marker]
    /\ UNCHANGED <<painter, canvas, failed>>

\* item.paint(p) with a painter carrying transform T
Paint ==
    /\ UNCHANGED <<series_impl, sb, prior, scall, emitted, slider>>
    /\ Idle
    /\ \E T \in Transforms :
          LET p == NewPainter(T)
              r == CASE item.cls = "CandlestickPricesItem" -> PricesPaint(item, p)
                     [] item.cls = "CandlestickVolumeItem" -> VolumePaint(item, p)
                     [] item.cls = "LinePlotItem" -> LineItemPaint(item, p)
          IN  /\ item' = r.self
              /\ painter' = [transform |-> r.p.transform, pen |-> r.p.pen, brush |-> r.p.brush]
              /\ canvas' = r.p.cmds
              /\ call' = [op |-> "paint", transform |-> T]
    /\ ret' = NoRet
    /\ UNCHANGED <<built, orphan, failed>>

\* item.boundingRect()
BoundingRect ==
    /\ UNCHANGED <<series_impl, sb, prior, scall, emitted, slider>>
    /\ Idle
    /\ ret' = CASE item.cls = "CandlestickPricesItem" -> PricesBoundingRect(item)
                [] item.cls = "CandlestickVolumeItem" -> VolumeBoundingRect(item)
                [] item.cls = "LinePlotItem" -> LineBoundingRect(item)
    /\ call' = [op |-> "boundingRect"]
    /\ UNCHANGED <<item, built, orphan, painter, canvas, failed>>

\* item.get_local_plot_range(x_start, x_end)
GetLocalPlotRange ==
    /\ UNCHANGED <<series_impl, sb, prior, scall, emitted, slider>>
    /\ Idle
    /\ \E x_start \in WindowEdges(item), x_end \in WindowEdges(item) :
          /\ ret' = CASE item.cls = "CandlestickPricesItem" ->
                             PricesGetLocalPlotRange(item, x_start, x_end)
                      [] item.cls = "CandlestickVolumeItem" ->
                             VolumeGetLocalPlotRange(item, x_start, x_end)
                      [] item.cls = "LinePlotItem" ->
                             LineGetLocalPlotRange(item, x_start, x_end)
          /\ call' = [op |-> "get_local_plot_range", x_start |-> x_start, x_end |-> x_end]
    /\ UNCHANGED <<item, built, orphan, painter, canvas, failed>>

\* item.get_x_ticks()
GetXTicksCall ==
    /\ UNCHANGED <<series_impl, sb, prior, scall, emitted, slider>>
    /\ Idle
    /\ ret' = CASE item.cls = "CandlestickPricesItem" -> PricesGetXTicks(item)
                [] item.cls = "CandlestickVolumeItem" -> VolumeGetXTicks(item)
                [] item.cls = "LinePlotItem" -> LineGetXTicks(item)
    /\ call' = [op |-> "get_x_ticks"]
    /\ UNCHANGED <<item, built, orphan, painter, canvas, failed>>

\* item.get_feature_value(key), or item.get_feature_value()
GetFeatureValue ==
    /\ UNCHANGED <<series_impl, sb, prior, scall, emitted, slider>>
    /\ Idle
    /\ \E key \in FeatureKeyArgs :
          /\ ret' = CASE item.cls = "CandlestickPricesItem" -> PricesGetFeatureValue(item, key)
                      [] item.cls = "CandlestickVolumeItem" -> VolumeGetFeatureValue(item, key)
                      [] item.cls = "LinePlotItem" -> LineGetFeatureValue(item, key)
          /\ call' = [op |-> "get_feature_value", key |-> key]
    /\ UNCHANGED <<item, built, orphan, painter, canvas, failed>>

\* The caller is done with the result (and, after a paint, with the painter) and
\* goes on to its next call; an exception was caught on the way.
Return ==
    /\ UNCHANGED <<series_impl, sb, prior, scall, emitted, slider>>
    /\ item # NoItem
    /\ call # NoCall
    /\ call' = NoCall
    /\ ret' = NoRet
    /\ painter' = NoPainter
    /\ canvas' = <<>>
    /\ failed' = (failed \/ ~ret.ok)
    /\ UNCHANGED <<item, built, orphan>>

Next ==
    \/ Factory
    \/ NewPricesItem
    \/ NewVolumeItem
    \/ NewLineItem
    \/ Paint
    \/ BoundingRect
    \/ GetLocalPlotRange
    \/ GetXTicksCall
    \/ GetFeatureValue
    \/ Return

Spec == Init /\ [][Next]_vars

----------------------------------------------------------------------------
\* The scroll bar's state machine: calls and events on one bar, no chart item held.

\* The arguments tried on setMinimum, setMaximum and setRange.
RangeArgs == {0, 10, 100}

\* The arguments tried on setValue.
ValueArgs == {-30, 5, 120}

\* The points, along the bar, of the mouse events.
MousePositions == {5, 40, 100}

\* The lengths a resize gives the bar and its parent (both are 50 before the first).
Geometries == {<<122, 100>>}

\* A call or event op on the bar, with the outcomes S of its handler.
Handled(op, S) ==
    /\ \E w \in S :
          /\ sb' = w.sb
          /\ emitted' = w.out
          /\ slider' = IF w.out.sliderReleased > 0 THEN "released"
                        ELSE IF w.out.sliderPressed > 0 THEN "pressed" ELSE slider
    /\ prior' = sb
    /\ scall' = op
    /\ UNCHANGED itemVars

\* The bar with nothing emitted yet, as a handler finds it.
Entered == [sb |-> sb, out |-> NoSignals]

SetValue ==
    /\ scall = NoCall
    /\ \E value \in ValueArgs :
          Handled([op |-> "setValue", value |-> value], setValue(Entered, value))

SetMinimum ==
    /\ scall = NoCall
    /\ \E min \in RangeArgs :
          Handled([op |-> "setMinimum", min |-> min], setMinimum(Entered, min))

SetMaximum ==
    /\ scall = NoCall
    /\ \E max \in RangeArgs :
          Handled([op |-> "setMaximum", max |-> max], setMaximum(Entered, max))

SetRange ==
    /\ scall = NoCall
    /\ \E min \in RangeArgs, max \in RangeArgs :
          Handled([op |-> "setRange", min |-> min, max |-> max], setRange(Entered, min, max))

\* A click on the groove's up button
PageUp ==
    /\ scall = NoCall
    /\ Handled([op |-> "pageUp"], onPageUp(Entered))

\* A click on the groove's down button
PageDown ==
    /\ scall = NoCall
    /\ Handled([op |-> "pageDown"], onPageDown(Entered))

MousePress ==
    /\ scall = NoCall
    /\ \E pos \in MousePositions, overHandle \in BOOLEAN :
          Handled([op |-> "mousePressEvent", pos |-> pos],
                  mousePressEvent(Entered, pos, overHandle))

\* Qt delivers move events to the bar only while a button pressed on it is held.
MouseMove ==
    /\ scall = NoCall
    /\ sb.held
    /\ \E pos \in MousePositions :
          Handled([op |-> "mouseMoveEvent", pos |-> pos], mouseMoveEvent(Entered, pos))

MouseRelease ==
    /\ scall = NoCall
    /\ sb.held
    /\ Handled([op |-> "mouseReleaseEvent"], mouseReleaseEvent(Entered))

Resize ==
    /\ scall = NoCall
    /\ \E g \in Geometries :
          Handled([op |-> "resizeEvent", length |-> g[1]], resizeEvent(Entered, g[1], g[2]))

\* The handler has returned and the slots connected to its signals have run.
ScrollReturn ==
    /\ scall # NoCall
    /\ scall' = NoCall
    /\ prior' = sb
    /\ emitted' = NoSignals
    /\ UNCHANGED <<sb, slider>>
    /\ UNCHANGED itemVars

ScrollNext ==
    \/ SetValue
    \/ SetMinimum
    \/ SetMaximum
    \/ SetRange
    \/ PageUp
    \/ PageDown
    \/ MousePress
    \/ MouseMove
    \/ MouseRelease
    \/ Resize
    \/ ScrollReturn

\* The bar alone: the series' answer for empty windows plays no part.
ScrollInit == Init /\ series_impl = "sentinel"

ScrollSpec == ScrollInit /\ [][ScrollNext]_vars

----------------------------------------------------------------------------
\* Holding the slider: the mouse and setSliderDown on one bar.

SetSliderDown ==
    /\ scall = NoCall
    /\ \E isDown \in BOOLEAN :
          Handled([op |-> "setSliderDown", isDown |-> isDown],
                  setSliderDown(Entered, isDown))

PressNext ==
    \/ SetSliderDown
    \/ MousePress
    \/ MouseRelease
    \/ Resize
    \/ ScrollReturn

PressSpec == ScrollInit /\ [][PressNext]_vars

----------------------------------------------------------------------------
\* Hovering: the pointer entering and leaving one bar, and the single shots these
\* events schedule firing in any order.

EnterEvent ==
    /\ scall = NoCall
    /\ Len(sb.singleShots) < MaxShots
    /\ Handled([op |-> "enterEvent"],
               {[w EXCEPT !.sb.lastHover = "enter"] : w \in enterEvent(Entered)})

LeaveEvent ==
    /\ scall = NoCall
    /\ Len(sb.singleShots) < MaxShots
    /\ Handled([op |-> "leaveEvent"],
               {[w EXCEPT !.sb.lastHover = "leave"] : w \in leaveEvent(Entered)})

SingleShot ==
    /\ scall = NoCall
    /\ \E i \in 1..Len(sb.singleShots) :
          Handled([op |-> "singleShot", callback |-> sb.singleShots[i]],
                  singleShotFires(Entered, i))

HoverNext ==
    \/ EnterEvent
    \/ LeaveEvent
    \/ SingleShot
    \/ ScrollReturn

HoverSpec == ScrollInit /\ [][HoverNext]_vars

----------------------------------------------------------------------------
\* Vocabulary of the properties.

IsPrices == item.cls = "CandlestickPricesItem"

IsVolume == item.cls = "CandlestickVolumeItem"

IsLine == item.cls = "LinePlotItem"

\* The constructor of the item has just returned (directly or through the factory).
JustBuilt == item # NoItem /\ call.op \in {"get_plot_item", "CandlestickPricesItem",
                                          "CandlestickVolumeItem", "LinePlotItem"}

\* The fields of the i-th bar of an OHLC series, rows being (open, close, high, low).
OpenAt(d, i) == d.rows[i][1]

CloseAt(d, i) == d.rows[i][2]

HighAt(d, i) == d.rows[i][3]

LowAt(d, i) == d.rows[i][4]

\* The body and the shadow a price picture holds for the i-th bar (ordinal i - 1).
BodyOf(pic, i) == pic[2 * i - 1]

ShadowOf(pic, i) == pic[2 * i]

DrawnWith(cmd, color) == cmd.brush = mkBrush(color) /\ cmd.pen = mkPen(color, 1)

----------------------------------------------------------------------------
\* C1: in a CandlestickPricesItem every bar's body is drawn with the positive color
\* exactly when close > open, and with the negative color when close <= open, the
\* tie close = open included.
C1_BodyColor ==
    IsPrices =>
        /\ Len(item.picture) = 2 * Len(item.data.rows)
        /\ \A i \in 1..Len(item.data.rows) :
              /\ DrawnWith(BodyOf(item.picture, i), item.style.positive_color)
                    <=> CloseAt(item.data, i) > OpenAt(item.data, i)
              /\ CloseAt(item.data, i) <= OpenAt(item.data, i)
                    => DrawnWith(BodyOf(item.picture, i), item.style.negative_color)

\* The documented series: a rising bar, a falling bar and a tie, in that order.
C1_Witness ==
    /\ IsPrices
    /\ item.data = ExamplePrices
    /\ DrawnWith(BodyOf(item.picture, 1), item.style.positive_color)
    /\ DrawnWith(BodyOf(item.picture, 2), item.style.negative_color)
    /\ DrawnWith(BodyOf(item.picture, 3), item.style.negative_color)

\* C2: every ordinal t has exactly one shadow rectangle, centered on t, of width
\* shadow_width, spanning low to high, with the pen and brush of that ordinal's body.
C2_Shadow ==
    IsPrices =>
        \A i \in 1..Len(item.data.rows) :
            LET shadow == ShadowOf(item.picture, i)
                centredOnT(c) == c.rect.w = item.style.shadow_width
                                 /\ 2 * c.rect.x + c.rect.w = 2 * XCoord(i - 1)
            IN  /\ Len(item.picture) = 2 * Len(item.data.rows)
                /\ {j \in 1..Len(item.picture) : centredOnT(item.picture[j])} = {2 * i}
                /\ shadow.rect.y = LowAt(item.data, i)
                /\ shadow.rect.y + shadow.rect.h = HighAt(item.data, i)
                /\ shadow.pen = BodyOf(item.picture, i).pen
                /\ shadow.brush = BodyOf(item.picture, i).brush

\* A falling bar and a rising bar, each with its shadow in its body's color.
C2_Witness ==
    /\ IsPrices
    /\ Len(item.data.rows) = 2
    /\ CloseAt(item.data, 1) < OpenAt(item.data, 1)
    /\ CloseAt(item.data, 2) > OpenAt(item.data, 2)
    /\ HighAt(item.data, 1) > LowAt(item.data, 1)
    /\ ShadowOf(item.picture, 1).brush = item.style.negative_color
    /\ ShadowOf(item.picture, 2).brush = item.style.positive_color

\* The series d with the high and low of its i-th bar replaced.
WithHighLow(d, i, h, l) ==
    [d EXCEPT !.rows[i] = <<OpenAt(d, i), CloseAt(d, i), h, l>>]

\* C3: changing only high and low of a bar (open and close held fixed) changes no
\* body of the item built: same color, same rectangle at every ordinal.  Any two
\* series that differ only in highs and lows are joined by such single changes.
C3_HighLowNoEffectOnBodies ==
    (IsPrices /\ JustBuilt) =>
        \A i \in 1..Len(item.data.rows), h \in PriceValues, l \in PriceValues :
            LET other == CandlestickPricesItem(WithHighLow(item.data, i, h, l), item.style)
            IN  /\ Len(other.picture) = Len(item.picture)
                /\ \A k \in 1..Len(item.data.rows) :
                      BodyOf(other.picture, k) = BodyOf(item.picture, k)

\* An item whose series has a variant with another high and low, and whose shadow
\* differs from that variant's.
C3_Witness ==
    /\ IsPrices
    /\ JustBuilt
    /\ Len(item.data.rows) = 2
    /\ \E h \in PriceValues, l \in PriceValues :
          LET other == CandlestickPricesItem(WithHighLow(item.data, 2, h, l), item.style)
          IN  /\ ShadowOf(other.picture, 2) # ShadowOf(item.picture, 2)
              /\ BodyOf(other.picture, 2) = BodyOf(item.picture, 2)

\* The volumes of a series inside the closed window [x_start, x_end].
VolumesIn(d, x_start, x_end) ==
    {d.rows[i][1] : i \in {j \in 1..Len(d.rows) : x_start <= j - 1 /\ j - 1 <= x_end}}

DrawnField(it, key, i) ==
    LET body == BodyOf(it.picture, i)
        shadow == ShadowOf(it.picture, i)
        rising == body.brush = mkBrush(it.style.positive_color)
    IN  CASE key = "open" -> IF rising THEN body.rect.y ELSE body.rect.y + body.rect.h
          [] key = "close" -> IF rising THEN body.rect.y + body.rect.h ELSE body.rect.y
          [] key = "high" -> shadow.rect.y + shadow.rect.h
          [] key = "low" -> shadow.rect.y

\* C5: get_feature_value(k) of a CandlestickPricesItem, k one of open, close, high,
\* low, returns one value per ordinal, the i-th being what the constructor drew as
\* field k at ordinal i; without a key it returns the close values.
C5_FeatureMatchesDrawing ==
    (IsPrices /\ call.op = "get_feature_value"
        /\ call.key \in {"open", "close", "high", "low", Omitted}) =>
        LET k == IF call.key = Omitted THEN "close" ELSE call.key
        IN  /\ ret.ok
            /\ Len(ret.val) = Len(item.data.rows)
            /\ \A i \in 1..Len(item.data.rows) : ret.val[i] = DrawnField(item, k, i)

\* The highs of the documented series.
C5_Witness ==
    /\ IsPrices
    /\ item.data = ExamplePrices
    /\ call.op = "get_feature_value"
    /\ call.key = "high"
    /\ ret = Returned(<<25, 22, 15>>)

\* What a query does on an item, by the item's class.
QueryResult(it, c) ==
    CASE c.op = "get_feature_value" ->
             (CASE it.cls = "CandlestickPricesItem" -> PricesGetFeatureValue(it, c.key)
                [] it.cls = "CandlestickVolumeItem" -> VolumeGetFeatureValue(it, c.key)
                [] it.cls = "LinePlotItem" -> LineGetFeatureValue(it, c.key))
      [] c.op = "get_local_plot_range" ->
             (CASE it.cls = "CandlestickPricesItem" ->
                       PricesGetLocalPlotRange(it, c.x_start, c.x_end)
                [] it.cls = "CandlestickVolumeItem" ->
                       VolumeGetLocalPlotRange(it, c.x_start, c.x_end)
                [] it.cls = "LinePlotItem" -> LineGetLocalPlotRange(it, c.x_start, c.x_end))

\* C6: on a CandlestickPricesItem, get_feature_value with a key outside open, close,
\* high, low raises the invalid-key error and changes nothing: series, style and
\* picture are as built, and every later get_feature_value, get_local_plot_range and
\* paint gives what it gives on the item as its constructor returned it.
C6_InvalidKeyRaisesAndChangesNothing ==
    IsPrices =>
        /\ (call.op = "get_feature_value"
              /\ call.key \notin {"open", "close", "high", "low", Omitted})
              => /\ ret = Raised("ValueError")
                 /\ item = built
        /\ (call.op = "get_feature_value"
              /\ call.key \in {"open", "close", "high", "low", Omitted})
              => ret.ok
        /\ failed =>
              /\ item = built
              /\ call.op \in {"get_feature_value", "get_local_plot_range"}
                    => ret = QueryResult(built, call)
              /\ call.op = "paint"
                    => /\ canvas = <<[op |-> "picture", x |-> 0, y |-> 0,
                                     picture |-> built.picture,
                                     transform |-> call.transform]>>
                       /\ painter = [transform |-> call.transform,
                                     pen |-> mkPen("black", 1), brush |-> "NoBrush"]

\* A paint that follows a failed get_feature_value and plays back the picture as built.
C6_Witness ==
    /\ IsPrices
    /\ failed
    /\ item.data = ExamplePrices
    /\ call.op = "paint"
    /\ Len(canvas) = 1
    /\ canvas[1].picture = built.picture
    /\ Len(built.picture) = 6

\* The object a LinePlotItem constructor call worked on: the item, or the orphan.
LineObject == IF item # NoItem THEN item ELSE orphan

HasAbsentKey(d) == \E k \in 1..Len(d.data_keys) : d.data_keys[k] \notin DOMAIN d.columns

\* C7: constructing a LinePlotItem with a requested key absent from the columns
\* raises the unknown-column error, wherever the key sits in the list, and leaves
\* the caller with no item.
C7_AbsentKeyRaisesNoItem ==
    /\ call.op = "LinePlotItem" =>
          /\ LineObject # NoItem
          /\ HasAbsentKey(LineObject.data)
                => (ret = Raised("ValueError") /\ item = NoItem /\ built = NoItem)
          /\ ~HasAbsentKey(LineObject.data)
                => (ret = Returned("LinePlotItem") /\ IsLine /\ orphan = NoItem)
    /\ orphan # NoItem => item = NoItem
    /\ IsLine => ~HasAbsentKey(item.data)

\* The absent key sits second: the polyline of the first key was already emitted.
C7_Witness ==
    /\ call.op = "LinePlotItem"
    /\ ret = Raised("ValueError")
    /\ item = NoItem
    /\ orphan # NoItem
    /\ orphan.data.n = 2
    /\ orphan.data.data_keys = <<"a", "z", "b">>
    /\ Len(orphan.picture) = 1
    /\ orphan.picture[1].op = "polyline"

C9_ItemAsBuilt ==
    item # NoItem =>
        /\ item.picture = built.picture
        /\ item.style = built.style
        /\ item.data = built.data
        /\ item = built

\* A line item with markers, painted after an earlier query on it failed.
C9_Witness ==
    /\ IsLine
    /\ failed
    /\ call.op = "paint"
    /\ item.marker_drawer = "draw_circle_marker"
    /\ Len(item.picture) = 2
    /\ Len(canvas) > 3

HoldsNoOrdinal(n, x_start, x_end) == Window(n, x_start, x_end) = {}

C12_VolumeFeatureIsBarHeight ==
    (IsVolume /\ call.op = "get_feature_value") =>
        /\ ret.ok
        /\ Len(ret.val) = Len(item.data.rows)
        /\ Len(item.picture) = Len(item.data.rows)
        /\ \A i \in 1..Len(item.data.rows) :
              /\ ret.val[i] = item.picture[i].rect.h
              /\ ret.val[i][2] > 0
              /\ ret.val[i][1] * VolumeScale = item.data.rows[i][1] * ret.val[i][2]
              /\ item.picture[i].rect.y = 0
              /\ 2 * item.picture[i].rect.x + item.picture[i].rect.w = 2 * XCoord(i - 1)
              /\ DrawnWith(item.picture[i], item.style.volume_color)
        /\ \A key \in FeatureKeyArgs : ret = QueryResult(item, [call EXCEPT !.key = key])

\* The documented volumes asked with a key that names a price field: 0.5, 2.0, 1.0.
C12_Witness ==
    /\ IsVolume
    /\ call.op = "get_feature_value"
    /\ call.key = "open"
    /\ item.data.rows = << <<50000000>>, <<200000000>>, <<100000000>> >>
    /\ ret = Returned(<< <<1, 2>>, <<2, 1>>, <<1, 1>> >>)

\* The painter operations of a paint that set the painter's transform.
TransformOps(cmds) == {j \in 1..Len(cmds) : cmds[j].op \in {"resetTransform", "setTransform"}}

\* C13: every paint of a LinePlotItem, the first or a repeated one, leaves the
\* painter with the transform T it had at entry; with a marker, paint resets the
\* transform and sets T again as its last operation, and without a marker it never
\* touches the transform.
C13_PaintRestoresTransform ==
    (IsLine /\ call.op = "paint") =>
        /\ painter.transform = call.transform
        /\ item.marker_drawer # "None" =>
              /\ TransformOps(canvas) = {2, Len(canvas)}
              /\ canvas[2] = [op |-> "resetTransform"]
              /\ canvas[Len(canvas)] = [op |-> "setTransform", transform |-> call.transform]
        /\ item.marker_drawer = "None" => TransformOps(canvas) = {}

\* A marked line item painted under a scaling transform after an earlier call on it
\* failed, so this paint is not the first call on the item.
C13_Witness ==
    /\ IsLine
    /\ call.op = "paint"
    /\ failed
    /\ item.marker_drawer = "draw_circle_marker"
    /\ call.transform # Identity
    /\ item.data.n = 2
    /\ Len(canvas) = 5
    /\ canvas[3].transform = Identity
    /\ painter.transform = call.transform

C16_BodyExtent ==
    IsPrices =>
        /\ Len(item.picture) = 2 * Len(item.data.rows)
        /\ \A i \in 1..Len(item.data.rows) :
              LET body == BodyOf(item.picture, i).rect
                  o == OpenAt(item.data, i)
                  c == CloseAt(item.data, i)
              IN  /\ BodyOf(item.picture, i).op = "rect"
                  /\ body.x = XCoord(i - 1) - item.style.bar_width
                  /\ body.x + body.w = XCoord(i - 1) + item.style.bar_width
                  /\ body.y = Min(o, c)
                  /\ body.y + body.h = Max(o, c)
                  /\ body.h >= 0
                  /\ body.h = 0 <=> c = o
        /\ item.data = ExamplePrices =>
              /\ <<BodyOf(item.picture, 1).rect.y, BodyOf(item.picture, 1).rect.h>> = <<10, 10>>
              /\ <<BodyOf(item.picture, 2).rect.y, BodyOf(item.picture, 2).rect.h>> = <<10, 10>>
              /\ <<BodyOf(item.picture, 3).rect.y, BodyOf(item.picture, 3).rect.h>> = <<10, 0>>

\* The documented bars: a rising, a falling and a degenerate body.
C16_Witness ==
    /\ IsPrices
    /\ item.data = ExamplePrices
    /\ item.style = OTHER_STYLE
    /\ BodyOf(item.picture, 2).rect = QRectF(XCoord(1) - 8, 10, 16, 10)
    /\ BodyOf(item.picture, 3).rect = QRectF(XCoord(2) - 8, 10, 16, 0)

\* The marker a paint under transform T owes to the i-th point of the k-th requested
\* column: a circle of radius marker_size / 2 centered at T.map((x_i, y_i)), drawn
\* while the painter's transform is the identity.
MarkerAt(it, T, k, i, cmd) ==
    /\ cmd.op = "ellipse"
    /\ cmd.center = Map(T, QPointF(XCoord(i - 1), it.data.columns[it.data.data_keys[k]][i]))
    /\ 2 * cmd.rx = it.style.marker_size
    /\ 2 * cmd.ry = it.style.marker_size
    /\ cmd.transform = Identity

\* C17: a LinePlotItem draws markers in paint exactly when it was built with marker
\* kind circle or o; any other kind, or none, builds an item that draws no marker
\* and raises no error.  When markers are drawn, paint plays back the cached picture
\* under the entry transform T, resets the transform to the identity, draws exactly
\* one marker per (requested column, ordinal) pair as MarkerAt says, and sets T
\* again; no marker comes before the playback or after T is set again.
C17_MarkersAfterPlayback ==
    /\ (call.op = "LinePlotItem" /\ item # NoItem) =>
          /\ ret.ok
          /\ item.marker_drawer = "draw_circle_marker" <=> call.marker \in {"circle", "o"}
          /\ call.marker \notin {"circle", "o"} => item.marker_drawer = "None"
    /\ (IsLine /\ call.op = "paint") =>
          LET keys == item.data.data_keys
              n == item.data.n
          IN  /\ ret.ok
              /\ item.marker_drawer \in {"draw_circle_marker", "None"}
              /\ canvas[1] = [op |-> "picture", x |-> 0, y |-> 0, picture |-> item.picture,
                              transform |-> call.transform]
              /\ item.marker_drawer = "None" => Len(canvas) = 1
              /\ item.marker_drawer = "draw_circle_marker" =>
                    /\ Len(canvas) = 3 + Len(keys) * n
                    /\ canvas[2] = [op |-> "resetTransform"]
                    /\ \A k \in 1..Len(keys), i \in 1..n :
                          MarkerAt(item, call.transform, k, i, canvas[2 + (k - 1) * n + i])
                    /\ canvas[Len(canvas)] =
                           [op |-> "setTransform", transform |-> call.transform]

\* Two columns of two ordinals painted with markers under the scaling transform:
\* four markers between the reset and the restore, the last one for (b, ordinal 1).
C17_Witness ==
    /\ IsLine
    /\ call.op = "paint"
    /\ call.transform # Identity
    /\ item.marker_drawer = "draw_circle_marker"
    /\ item.data.data_keys = <<"a", "b">>
    /\ item.data.n = 2
    /\ Len(canvas) = 7
    /\ canvas[6].op = "ellipse"
    /\ canvas[6].center # QPointF(XCoord(1), item.data.columns["b"][2])
    /\ MarkerAt(item, call.transform, 2, 2, canvas[6])

\* The documented preconditions on a series: every high is at least the bar's open
\* and close, every low at most; every volume is non-negative.
ValidPrices(d) ==
    \A i \in 1..Len(d.rows) :
        /\ HighAt(d, i) >= Max(OpenAt(d, i), CloseAt(d, i))
        /\ LowAt(d, i) <= Min(OpenAt(d, i), CloseAt(d, i))

ValidVolumes(d) == \A i \in 1..Len(d.rows) : d.rows[i][1] >= 0

\* The rectangle r lies vertically inside [lo, hi].
VerticallyInside(r, lo, hi) == lo <= r.y /\ r.y + r.h <= hi

----------------------------------------------------------------------------
\* Properties of the scroll bar.

\* C15: from a new FluentScrollBar (minimum = maximum = value = 0), after any finite
\* sequence of setValue, setRange, setMinimum, setMaximum, page-up and page-down
\* clicks and mouse press and move events, minimum() <= value() <= maximum().
C15_ValueWithinRange ==
    /\ sb.minimum <= sb.value
    /\ sb.value <= sb.maximum

\* C19: valueChanged is emitted exactly when the stored value changes: a call that
\* changes value() emits it once, with the new value, and a call that leaves value()
\* as it was emits none, a setValue beyond the range's end the value sits on included.
C19_ValueChangedIffChanged ==
    scall # NoCall =>
        /\ sb.value # prior.value => emitted.valueChanged = <<sb.value>>
        /\ sb.value = prior.value => emitted.valueChanged = <<>>

\* C20: setRange(min, max) changes nothing and emits nothing when min > max or when
\* (min, max) is the current range; otherwise it sets minimum() = min and
\* maximum() = max and emits rangeChanged exactly once, with the pair (min, max).
C20_SetRangeEmitsOnce ==
    scall.op = "setRange" =>
        IF scall.min > scall.max
               \/ (scall.min = prior.minimum /\ scall.max = prior.maximum)
        THEN sb = prior /\ emitted = NoSignals
        ELSE /\ sb.minimum = scall.min
             /\ sb.maximum = scall.max
             /\ emitted.rangeChanged = << <<scall.min, scall.max>> >>

\* C21: isSliderDown() tells whether the slider is held: false on a new bar, true
\* after mousePressEvent, false after mouseReleaseEvent, and equal to b after
\* setSliderDown(b), for b true and b false, in any sequence of these.
C21_SliderDownIsHeld ==
    /\ (scall = NoCall /\ sb = NewScrollBar) => ~isSliderDown(sb)
    /\ scall.op = "mousePressEvent" => isSliderDown(sb)
    /\ scall.op = "mouseReleaseEvent" => ~isSliderDown(sb)
    /\ scall.op = "setSliderDown" => isSliderDown(sb) = scall.isDown

\* C23: over any sequence of mousePressEvent and mouseReleaseEvent, wherever the
\* presses fall (on the handle, in the slide region, in the padding), sliderPressed
\* and sliderReleased alternate strictly, sliderPressed first: a step that emits
\* sliderReleased finds sliderPressed emitted last, and a step that emits
\* sliderPressed does not.
C23_PressedReleasedAlternate ==
    [][/\ emitted'.sliderReleased > 0 => (slider = "pressed" /\ emitted'.sliderReleased = 1)
       /\ emitted'.sliderPressed > 0 => (slider # "pressed" /\ emitted'.sliderPressed = 1)]_vars

\* C22: on an enabled bar, under any sequence of enterEvent and leaveEvent and any
\* order of firing of the single shots they schedule: when every scheduled shot has
\* fired, the groove is expanded exactly if the last event was an enter;
\* groove.fadeIn and groove.fadeOut are called in strict alternation, fadeIn first;
\* and no expand or collapse callback runs before the flag isEnter it reads was set.
C22_HoverExpandsAndCollapses ==
    /\ sb.singleShots = <<>> => (sb.isExpanded <=> sb.lastHover = "enter")
    /\ sb.isExpanded <=> sb.grooveAni = "fadeIn"
    /\ scall # NoCall =>
          /\ emitted.fadeIn > 0 =>
                (emitted.fadeIn = 1 /\ emitted.fadeOut = 0 /\ prior.grooveAni # "fadeIn")
          /\ emitted.fadeOut > 0 =>
                (emitted.fadeOut = 1 /\ emitted.fadeIn = 0 /\ prior.grooveAni = "fadeIn")
          /\ emitted.fadeIn + emitted.fadeOut > 0 => scall.op = "singleShot"
    /\ scall.op = "singleShot" => (emitted.raised = "None" /\ prior.hasIsEnter)

\* The pointer left and came back before any shot fired; the stale collapse fires
\* last, after the second expand, and leaves the expanded groove alone.
C22_Witness ==
    /\ scall.op = "singleShot"
    /\ scall.callback = "collapse"
    /\ sb.singleShots = <<>>
    /\ sb.lastHover = "enter"
    /\ prior.isExpanded
    /\ sb.isExpanded
    /\ emitted.fadeOut = 0

====
